---- MODULE Spec2Model ----
(***************************************************************************)
(* Model of Axial_BOTPT/parse_and_build.py: discovery of .dat files under  *)
(* RAW_DIR, per-file parsing (load_dat, _find_cols), per-station merging,  *)
(* optional resampling, and the write of all_series.json.                  *)
(*                                                                         *)
(* Timestamps are integers counting ticks of 1/TicksPerSecond second since *)
(* the epoch.  Pressures are exact rationals <<num, den>> counting units   *)
(* of 1e-4 kPa, so that round(4) is rounding to the nearest integer.       *)
(***************************************************************************)
EXTENDS Integers, Sequences, FiniteSets, TLC

VARIABLES
    discovered,   \* the files RAW_DIR.rglob("*.dat") yields, in its order
    rule,         \* RESAMPLE_RULE
    pc,           \* position of main()
    i,            \* index (1-based) of the next file of the first loop
    records,      \* the dict records, as a sequence in insertion order
    warned,       \* paths for which "[WARN] Failed to parse" was printed
    j,            \* index (1-based) of the next station of the second loop
    merged,       \* the frame merged after line 106, for the station before j
    series,       \* the list series
    payload,      \* the dict payload
    out_file,     \* the file at out_path
    fatal,        \* where an uncaught exception ended the run ("" = none)
    header,       \* df.columns handed to _find_cols
    cols,         \* what _find_cols returned
    pathA, pathB, \* two paths handed to station_name_from_path
    stA, stB      \* what station_name_from_path returned for them

mainVars == <<discovered, rule, pc, i, records, warned, j, merged, series, payload,
              out_file, fatal>>
colVars  == <<header, cols>>
pathVars == <<pathA, pathB, stA, stB>>
vars     == <<mainVars, colVars, pathVars>>

----------------------------------------------------------------------------
(* Bounds of the model *)

MaxRows == 2
MaxCols == 3
MaxDirDepth == 2
TicksPerSecond == 2

----------------------------------------------------------------------------
(* Generic helpers *)

\* Python's None where the code holds an index or None
None == -1

Min(S) == CHOOSE m \in S : \A n \in S : m <= n

Abs(n) == IF n < 0 THEN -n ELSE n

RECURSIVE GCD(_, _)
GCD(a, b) == IF b = 0 THEN a ELSE GCD(b, a % b)

SeqsUpTo(S, n) == UNION {[1..k -> S] : k \in 0..n}

Range(s) == {s[k] : k \in 1..Len(s)}

Distinct(s) == \A a, b \in 1..Len(s) : a # b => s[a] # s[b]

----------------------------------------------------------------------------
(* _find_cols *)

\* c.lower().strip() on the column labels of the model
LowerStrip(c) ==
    CASE c = " Time"     -> "time"
      [] c = "DATE"      -> "date"
      [] c = "Timestamp" -> "timestamp"
      [] c = "PSI "      -> "psi"
      [] c = "Val"       -> "val"
      [] OTHER           -> c

time_keys == <<"time", "timestamp", "date", "datetime">>
val_keys  == <<"pressure", "prs", "kpa", "psi", "value", "val">>

\* lc.index(k): the first 0-based position of k in lc
Index(lc, k) == Min({p \in 1..Len(lc) : lc[p] = k}) - 1

\* for k in keys: if k in lc: idx = lc.index(k); break
RECURSIVE FirstKeyIndex(_, _, _)
FirstKeyIndex(keys, lc, n) ==
    IF n > Len(keys) THEN None
    ELSE IF keys[n] \in Range(lc) THEN Index(lc, keys[n])
    ELSE FirstKeyIndex(keys, lc, n + 1)

\* lines 40-43: v_idx when no value key matched
DefaultValueIndex(t_idx, ncols) ==
    LET v0 == IF ncols > 1 THEN 1 ELSE 0
    IN  IF v0 = t_idx /\ ncols > 1 THEN 1 ELSE v0

\* the position of the leftmost label that is one of keys, None without one
LeftmostKeyIndex(keys, lc) ==
    IF \E p \in 1..Len(lc) : lc[p] \in Range(keys)
    THEN Min({p \in 1..Len(lc) : lc[p] \in Range(keys)}) - 1
    ELSE None

\* _find_cols taking the leftmost column any synonym names
find_cols_leftmost(columns) ==
    LET lc == [p \in 1..Len(columns) |-> LowerStrip(columns[p])]
        t0 == LeftmostKeyIndex(time_keys, lc)
        v0 == LeftmostKeyIndex(val_keys, lc)
        t_idx == IF t0 = None THEN 0 ELSE t0
        v_idx == IF v0 = None THEN DefaultValueIndex(t_idx, Len(columns)) ELSE v0
    IN  <<t_idx, v_idx>>

\* the 0-based indices <<t_idx, v_idx>> whose labels _find_cols returns
_find_cols(columns) ==
    LET lc == [p \in 1..Len(columns) |-> LowerStrip(columns[p])]
        t0 == FirstKeyIndex(time_keys, lc, 1)
        v0 == FirstKeyIndex(val_keys, lc, 1)
        t_idx == IF t0 = None THEN 0 ELSE t0
        v_idx == IF v0 = None THEN DefaultValueIndex(t_idx, Len(columns)) ELSE v0
    IN  <<t_idx, v_idx>>

----------------------------------------------------------------------------
(* station_name_from_path *)

RAW_DIR == <<"data", "raw">>

\* Path.stem of the file names of the model: the name without its last suffix
Stem(name) ==
    CASE name = "f.dat"   -> "f"
      [] name = "g.dat"   -> "g"
      [] name = "h.dat"   -> "h"
      [] name = "A.B.dat" -> "A.B"
      [] OTHER            -> name

\* "/".join(parts)
RECURSIVE Join(_)
Join(parts) ==
    IF Len(parts) = 0 THEN ""
    ELSE IF Len(parts) = 1 THEN parts[1]
    ELSE parts[1] \o "/" \o Join(Tail(parts))

\* path.relative_to(RAW_DIR), for the paths RAW_DIR.rglob yields (all below RAW_DIR)
relative_to(path, base) == SubSeq(path, Len(base) + 1, Len(path))

\* station_name_from_path keeping the file name among the parts
station_name_with_file(path) == Join(relative_to(path, RAW_DIR))

station_name_from_path(path) ==
    LET rel   == relative_to(path, RAW_DIR)
        parts == SubSeq(rel, 1, Len(rel) - 1)
    IN  IF Len(parts) > 0 THEN Join(parts) ELSE Stem(rel[Len(rel)])

----------------------------------------------------------------------------
(* Values: exact rationals <<num, den>>, den > 0, in lowest terms *)

RatNorm(n, d) == LET g == GCD(Abs(n), d) IN <<n \div g, d \div g>>

RatAdd(a, b) == RatNorm(a[1] * b[2] + b[1] * a[2], a[2] * b[2])

RECURSIVE RatSum(_)
RatSum(vs) == IF vs = <<>> THEN <<0, 1>> ELSE RatAdd(vs[1], RatSum(Tail(vs)))

\* the sum in place of the mean
MeanUndivided(vs) == RatSum(vs)

\* the arithmetic mean of a non-empty sequence of values
Mean(vs) == LET t == RatSum(vs) IN RatNorm(t[1], t[2] * Len(vs))

\* Series.round(4): to the nearest unit of 1e-4 kPa, halves to the even neighbour
Round4(v) ==
    LET q == v[1] \div v[2]
        r == v[1] % v[2]
    IN  IF 2 * r < v[2] THEN q
        ELSE IF 2 * r > v[2] THEN q + 1
        ELSE IF q % 2 = 0 THEN q ELSE q + 1

\* dt.strftime("%Y-%m-%dT%H:%M:%SZ"): the timestamp's whole second; the text is
\* one-to-one with the whole second, so the model keeps the second itself
strftime(t) == t \div TicksPerSecond

\* str.lower() on the configuration strings of the model
Lower(str) ==
    CASE str = "None" -> "none"
      [] str = "NONE" -> "none"
      [] OTHER        -> str

----------------------------------------------------------------------------
(* load_dat *)

ASSUME_UNITS == "psi"

\* 6.89475729 kPa per psi, in units of 1e-4 kPa
PSI_TO_KPA == 68948

\* a cell of the file that is empty, "NA", "NaN" or not parseable
NA == None

\* a missing timestamp
NaT == None

\* a missing value: no rational has denominator 0
NaN == <<0, 0>>

\* pd.to_datetime(..., errors="coerce", utc=True) of a cell: its ticks since the epoch
to_datetime(c) == IF c = NA THEN NaT ELSE c

\* pd.to_numeric(..., errors="coerce") of a cell
to_numeric(c) == IF c = NA THEN NaN ELSE <<c, 1>>

\* DataFrame.dropna(): the rows <<time, value>> without a missing entry
dropna(df) == SelectSeq(df, LAMBDA r : r[1] # NaT /\ r[2] # NaN)

\* inserts row r after the rows of the sorted frame df whose time is <= r's
RECURSIVE InsertByTime(_, _)
InsertByTime(df, r) ==
    IF df = <<>> THEN <<r>>
    ELSE IF df[1][1] <= r[1] THEN <<df[1]>> \o InsertByTime(Tail(df), r)
    ELSE <<r>> \o df

\* DataFrame.sort_values("time")
RECURSIVE sort_values(_)
sort_values(df) ==
    IF df = <<>> THEN <<>>
    ELSE InsertByTime(sort_values(SubSeq(df, 1, Len(df) - 1)), df[Len(df)])

\* lines 64-67: the kPa value of a parsed value
to_kPa(v) == IF Lower(ASSUME_UNITS) = "psi" THEN RatNorm(v[1] * PSI_TO_KPA, v[2]) ELSE v

\* [raised |-> both read_csv calls failed, df |-> the frame <<time, pressure_kPa>>]
load_dat(f) ==
    IF f.corrupt THEN [raised |-> TRUE, df |-> <<>>]
    ELSE IF f.rows = <<>> THEN [raised |-> FALSE, df |-> <<>>]
    ELSE LET c   == _find_cols(f.header)
             raw == [k \in 1..Len(f.rows) |->
                        <<to_datetime(f.rows[k][c[1] + 1]), to_numeric(f.rows[k][c[2] + 1])>>]
             out == dropna(raw)
             kpa == [k \in 1..Len(out) |-> <<out[k][1], to_kPa(out[k][2])>>]
         IN  [raised |-> FALSE, df |-> sort_values(kpa)]

----------------------------------------------------------------------------
(* resample_df and the body of the second loop of main *)

\* the seconds of the offset alias "15min"
Seconds15min == 900

\* the bucket width, in ticks, of the offset aliases pandas accepts
RuleTicks(r) == Seconds15min * TicksPerSecond

\* pandas raises ValueError("Invalid frequency") for any other non-empty rule
ValidFreq(r) == r = "15min"

\* the rows of df whose time is t, in df's order
ValuesAt(df, t) ==
    LET g == SelectSeq(df, LAMBDA r : r[1] = t) IN [k \in 1..Len(g) |-> g[k][2]]

\* the elements of a finite set of integers, ascending
RECURSIVE Ascending(_)
Ascending(S) == IF S = {} THEN <<>> ELSE <<Min(S)>> \o Ascending(S \ {Min(S)})

\* groupby("time", as_index=False)["pressure_kPa"].first()
groupby_first(df) ==
    LET ts == Ascending({df[k][1] : k \in 1..Len(df)})
    IN  [k \in 1..Len(ts) |-> <<ts[k], ValuesAt(df, ts[k])[1]>>]

\* groupby("time", as_index=False)["pressure_kPa"].mean()
groupby_mean(df) ==
    LET ts == Ascending({df[k][1] : k \in 1..Len(df)})
    IN  [k \in 1..Len(ts) |-> <<ts[k], Mean(ValuesAt(df, ts[k]))>>]

\* .resample(rule).mean().dropna().reset_index(): one row per non-empty bucket
resample_mean(df, w) ==
    LET b  == [k \in 1..Len(df) |-> <<df[k][1] - (df[k][1] % w), df[k][2]>>]
    IN  groupby_mean(b)

\* line 81: not rule or rule.lower() == "none", resample_df returns df itself
PassesThrough(r) == r = "" \/ Lower(r) = "none"

\* [raised |-> resample raised ValueError, df |-> the frame returned]
resample_df(df, r) ==
    IF PassesThrough(r) THEN [raised |-> FALSE, df |-> df]
    ELSE IF ~ValidFreq(r) THEN [raised |-> TRUE, df |-> <<>>]
    ELSE [raised |-> FALSE, df |-> resample_mean(df, RuleTicks(r))]

\* pd.concat(dfs, ignore_index=True)
RECURSIVE concat(_)
concat(dfs) == IF dfs = <<>> THEN <<>> ELSE dfs[1] \o concat(Tail(dfs))

\* lines 102-104: merged before resampling
merge_station(dfs) == groupby_mean(sort_values(dropna(concat(dfs))))

\* lines 108-113: the dict appended to series
series_entry(st, m) ==
    [station |-> st,
     x       |-> [k \in 1..Len(m) |-> strftime(m[k][1])],
     y       |-> [k \in 1..Len(m) |-> Round4(m[k][2])],
     unit    |-> "kPa"]

\* line 119
note_for(r) == IF r # "" THEN "Resampled for display" ELSE "Raw cadence"

----------------------------------------------------------------------------
(* The body of the first loop of main *)

\* the position of station st in records, 0 when it has no entry
RecordIndex(recs, st) ==
    IF \E k \in 1..Len(recs) : recs[k].st = st
    THEN CHOOSE k \in 1..Len(recs) : recs[k].st = st
    ELSE 0

\* records.setdefault(st, []).append(df)
setdefault_append(recs, st, df) ==
    LET k == RecordIndex(recs, st)
    IN  IF k = 0 THEN Append(recs, [st |-> st, dfs |-> <<df>>])
        ELSE [recs EXCEPT ![k].dfs = Append(@, df)]

\* the try statement with the station's entry created before the file is read
process_file_entry_first(recs, f) ==
    LET r  == load_dat(f)
        st == station_name_from_path(f.path)
    IN  IF r.raised THEN setdefault_append(recs, st, <<>>)
        ELSE IF r.df = <<>> THEN recs
        ELSE setdefault_append(recs, st, r.df)

\* lines 91-98: records after the try statement has run for file f
process_file(recs, f) ==
    LET r == load_dat(f)
    IN  IF r.raised THEN recs
        ELSE IF r.df = <<>> THEN recs
        ELSE setdefault_append(recs, station_name_from_path(f.path), r.df)

----------------------------------------------------------------------------
(* The inputs of a run *)

\* the .dat files below RAW_DIR: one in RAW_DIR itself and two sharing a directory
MainPaths == {RAW_DIR \o <<"f.dat">>, RAW_DIR \o <<"h", "f.dat">>, RAW_DIR \o <<"h", "h.dat">>}

\* the orders in which rglob can yield k of the files
PathOrders(k) == {ps \in [1..k -> MainPaths] : Distinct(ps)}

\* the rows <<time cell, value cell>> a file of the model can hold: two values at
\* one instant, a second instant within the same second, an instant in the next
\* 15min bucket, and a row whose time does not parse
RowSet == {<<0, 1>>, <<0, 2>>, <<1, 2>>, <<Seconds15min * TicksPerSecond, 1>>, <<NA, 1>>}

\* what a file of n rows can be: a table, or, with no row read, bytes that
\* read_csv cannot read
FileContents(n) ==
    {[corrupt |-> FALSE, header |-> <<"time", "pressure">>, rows |-> r] :
        r \in [1..n -> RowSet]}
    \cup (IF n = 0 THEN {[corrupt |-> TRUE, header |-> <<>>, rows |-> <<>>]} ELSE {})

\* the contents of k files holding at most n rows together
RECURSIVE ContentSeqs(_, _)
ContentSeqs(k, n) ==
    IF k = 0 THEN {<<>>}
    ELSE UNION {{<<c>> \o rest : c \in FileContents(l), rest \in ContentSeqs(k - 1, n - l)} :
                   l \in 0..n}

\* the files at the paths ps with the contents cs
FileSeq(ps, cs) ==
    [k \in 1..Len(ps) |->
        [path |-> ps[k], corrupt |-> cs[k].corrupt, header |-> cs[k].header,
         rows |-> cs[k].rows]]

\* the file systems of n files, as rglob yields them
Files(n) == {FileSeq(ps, cs) : ps \in PathOrders(n), cs \in ContentSeqs(n, MaxRows)}

\* RESAMPLE_RULE as shipped, disabled as line 21 documents, empty, and not a frequency
Rules == {"15min", "None", "", "bogus"}

Untouched == [touched |-> FALSE, chunks |-> <<>>]

NoPayload == [meta |-> [count_series |-> 0, note |-> ""], series |-> <<>>]

\* what json.dump writes, piece by piece
Chunks(pl) == <<pl.meta>> \o pl.series

ColsIdle == header = <<>> /\ cols = <<>>

PathsIdle == pathA = <<>> /\ pathB = <<>> /\ stA = "" /\ stB = ""

Init ==
    /\ \E n \in 0..Cardinality(MainPaths) : discovered \in Files(n)
    /\ rule \in Rules
    /\ pc = "mkdir"
    /\ i = 1
    /\ records = <<>>
    /\ warned = <<>>
    /\ j = 1
    /\ merged = <<>>
    /\ series = <<>>
    /\ payload = NoPayload
    /\ out_file = Untouched
    /\ fatal = ""
    /\ ColsIdle
    /\ PathsIdle

----------------------------------------------------------------------------
(* main *)

Abort(where) == pc' = "aborted" /\ fatal' = where

\* line 87
Mkdir ==
    /\ pc = "mkdir"
    /\ pc' = "loop"
    /\ UNCHANGED <<discovered, rule, i, records, warned, j, merged, series, payload,
                   out_file, fatal, colVars, pathVars>>

\* line 87 raising OSError
MkdirFail ==
    /\ pc = "mkdir"
    /\ Abort("mkdir")
    /\ UNCHANGED <<discovered, rule, i, records, warned, j, merged, series, payload,
                   out_file, colVars, pathVars>>

\* lines 90-98: one iteration of the first loop
ProcessFile ==
    /\ pc = "loop"
    /\ i <= Len(discovered)
    /\ records' = process_file(records, discovered[i])
    /\ warned' = IF load_dat(discovered[i]).raised
                 THEN Append(warned, discovered[i].path) ELSE warned
    /\ i' = i + 1
    /\ UNCHANGED <<discovered, rule, pc, j, merged, series, payload, out_file, fatal,
                   colVars, pathVars>>

\* line 100: the first loop is exhausted
StartAggregate ==
    /\ pc = "loop"
    /\ i > Len(discovered)
    /\ pc' = "aggregate"
    /\ series' = <<>>
    /\ UNCHANGED <<discovered, rule, i, records, warned, j, merged, payload, out_file,
                   fatal, colVars, pathVars>>

\* lines 101-113: one iteration of the second loop
AggregateStation ==
    /\ pc = "aggregate"
    /\ j <= Len(records)
    /\ LET rs == resample_df(merge_station(records[j].dfs), rule)
       IN  IF rs.raised
           THEN /\ Abort("resample")
                /\ UNCHANGED <<j, merged, series>>
           ELSE /\ merged' = rs.df
                /\ series' = Append(series, series_entry(records[j].st, rs.df))
                /\ j' = j + 1
                /\ UNCHANGED <<pc, fatal>>
    /\ UNCHANGED <<discovered, rule, i, records, warned, payload, out_file, colVars,
                   pathVars>>

\* lines 115-124
BuildPayload ==
    /\ pc = "aggregate"
    /\ j > Len(records)
    /\ payload' = [meta   |-> [count_series |-> Len(series), note |-> note_for(rule)],
                   series |-> series]
    /\ pc' = "open"
    /\ UNCHANGED <<discovered, rule, i, records, warned, j, merged, series, out_file,
                   fatal, colVars, pathVars>>

\* the file opened before the stations are computed
OpenOutEarly ==
    /\ pc = "loop"
    /\ i > Len(discovered)
    /\ ~out_file.touched
    /\ out_file' = [touched |-> TRUE, chunks |-> <<>>]
    /\ UNCHANGED <<discovered, rule, pc, i, records, warned, j, merged, series, payload,
                   fatal, colVars, pathVars>>

\* line 125: open(out_path, "w") truncates the file
OpenOut ==
    /\ pc = "open"
    /\ out_file' = [touched |-> TRUE, chunks |-> <<>>]
    /\ pc' = "dump"
    /\ UNCHANGED <<discovered, rule, i, records, warned, j, merged, series, payload,
                   fatal, colVars, pathVars>>

\* line 125 raising OSError
OpenFail ==
    /\ pc = "open"
    /\ Abort("open")
    /\ UNCHANGED <<discovered, rule, i, records, warned, j, merged, series, payload,
                   out_file, colVars, pathVars>>

\* line 126: json.dump writes the next piece; after the last one the file is closed
DumpChunk ==
    /\ pc = "dump"
    /\ LET n == Len(out_file.chunks) + 1
       IN  /\ out_file' = [out_file EXCEPT !.chunks = Append(@, Chunks(payload)[n])]
           /\ pc' = IF n = Len(Chunks(payload)) THEN "done" ELSE "dump"
    /\ UNCHANGED <<discovered, rule, i, records, warned, j, merged, series, payload,
                   fatal, colVars, pathVars>>

\* line 126: a write raising OSError
DumpFail ==
    /\ pc = "dump"
    /\ Abort("dump")
    /\ UNCHANGED <<discovered, rule, i, records, warned, j, merged, series, payload,
                   out_file, colVars, pathVars>>

Next ==
    \/ Mkdir
    \/ MkdirFail
    \/ ProcessFile
    \/ StartAggregate
    \/ AggregateStation
    \/ BuildPayload
    \/ OpenOut
    \/ OpenFail
    \/ DumpChunk
    \/ DumpFail

Spec == Init /\ [][Next]_vars

----------------------------------------------------------------------------
(* _find_cols applied to the column labels of one frame *)

ColNames == {"time", " Time", "DATE", "datetime", "pressure", "PSI ", "Val", "foo", "bar"}

\* read_csv keeps column labels distinct
Headers == {h \in SeqsUpTo(ColNames, MaxCols) : Len(h) > 0 /\ Distinct(h)}

MainIdle ==
    /\ discovered = <<>>
    /\ rule = ""
    /\ pc = "idle"
    /\ i = 1
    /\ records = <<>>
    /\ warned = <<>>
    /\ j = 1
    /\ merged = <<>>
    /\ series = <<>>
    /\ payload = NoPayload
    /\ out_file = Untouched
    /\ fatal = ""

InitCols ==
    /\ header \in Headers
    /\ cols = <<>>
    /\ MainIdle
    /\ PathsIdle

\* line 57: tcol, vcol = _find_cols(df)
FindCols ==
    /\ cols = <<>>
    /\ LET c == _find_cols(header)
       IN  cols' = <<[idx |-> c[1], label |-> header[c[1] + 1]],
                     [idx |-> c[2], label |-> header[c[2] + 1]]>>
    /\ UNCHANGED <<header, mainVars, pathVars>>

NextCols == FindCols

SpecCols == InitCols /\ [][NextCols]_vars

----------------------------------------------------------------------------
(* station_name_from_path applied to two paths below RAW_DIR *)

DirNames == {"A", "B", "h"}

FileNames == {"f.dat", "g.dat", "h.dat", "A.B.dat"}

Paths == {RAW_DIR \o d \o <<n>> : d \in SeqsUpTo(DirNames, MaxDirDepth), n \in FileNames}

\* the directory of a path, relative to RAW_DIR
DirOf(path) == SubSeq(path, Len(RAW_DIR) + 1, Len(path) - 1)

NameOf(path) == path[Len(path)]

InitPaths ==
    /\ pathA \in Paths
    /\ pathB \in Paths
    /\ pathA # pathB
    /\ stA = ""
    /\ stB = ""
    /\ MainIdle
    /\ ColsIdle

\* line 95 for the first path
NameA ==
    /\ stA = ""
    /\ stA' = station_name_from_path(pathA)
    /\ UNCHANGED <<pathA, pathB, stB, mainVars, colVars>>

\* line 95 for the second path
NameB ==
    /\ stB = ""
    /\ stB' = station_name_from_path(pathB)
    /\ UNCHANGED <<pathA, pathB, stA, mainVars, colVars>>

NextPaths == NameA \/ NameB

SpecPaths == InitPaths /\ [][NextPaths]_vars

----------------------------------------------------------------------------
(* Runs of main as functions of its inputs, for comparing runs *)

\* records after the first loop has run over the files fs
RECURSIVE FoldFiles(_)
FoldFiles(fs) ==
    IF fs = <<>> THEN <<>>
    ELSE process_file(FoldFiles(SubSeq(fs, 1, Len(fs) - 1)), fs[Len(fs)])

\* series after both loops have run over the files fs under a rule that does not raise
SeriesOfRun(fs, r) ==
    LET recs == FoldFiles(fs)
    IN  [k \in 1..Len(recs) |->
            series_entry(recs[k].st, resample_df(merge_station(recs[k].dfs), r).df)]

Orders(n) == {f \in [1..n -> 1..n] : \A a, b \in 1..n : a # b => f[a] # f[b]}

Permuted(fs, f) == [k \in 1..Len(fs) |-> fs[f[k]]]

StrictlyIncreasing(xs) == \A k \in 1..(Len(xs) - 1) : xs[k] < xs[k + 1]

\* the files of the run for which load_dat does not raise
Readable(fs) == SelectSeq(fs, LAMBDA f : ~load_dat(f).raised)

\* the rows load_dat retains, over all readable files of station st
RECURSIVE RetainedRows(_, _)
RetainedRows(fs, st) ==
    IF fs = <<>> THEN <<>>
    ELSE LET f == fs[1]
         IN  (IF ~load_dat(f).raised /\ station_name_from_path(f.path) = st
              THEN load_dat(f).df ELSE <<>>) \o RetainedRows(Tail(fs), st)

RECURSIVE SumNum(_)
SumNum(vs) == IF vs = <<>> THEN 0 ELSE vs[1][1] + SumNum(Tail(vs))

----------------------------------------------------------------------------
(* C1 *)

\* C1: in every series object main builds, x is strictly increasing (hence without
\* repeats) and x and y have the same length.
C1_XStrictlyIncreasing ==
    \A k \in 1..Len(series) :
        StrictlyIncreasing(series[k].x) /\ Len(series[k].x) = Len(series[k].y)

----------------------------------------------------------------------------
(* C2 *)

\* C2: a file whose processing raises contributes nothing and stops nothing: while
\* the first loop runs and when it ends, records is what the readable files seen
\* so far alone would have produced and exactly the failing files were warned
\* about; the loop ends only when every file was visited; and the series built,
\* and the document written, are those of a run over the readable files alone.
C2_FailingFileSkipped ==
    LET seen == SubSeq(discovered, 1, i - 1)
        bad  == SelectSeq(seen, LAMBDA f : load_dat(f).raised)
    IN  /\ (pc \in {"loop", "aggregate"} =>
               /\ records = FoldFiles(Readable(seen))
               /\ warned = [k \in 1..Len(bad) |-> bad[k].path])
        /\ (pc \notin {"mkdir", "loop"} /\ fatal # "mkdir" => i = Len(discovered) + 1)
        /\ (pc = "open" => series = SeriesOfRun(Readable(discovered), rule))
        /\ (pc = "done" =>
               /\ payload.series = SeriesOfRun(Readable(discovered), rule)
               /\ out_file.chunks = Chunks(payload))

\* a finished run in which a failing file was followed by a file whose rows were written
C2_Witness ==
    /\ pc = "done"
    /\ \E a, b \in 1..Len(discovered) :
          /\ a < b
          /\ load_dat(discovered[a]).raised
          /\ load_dat(discovered[b]).df # <<>>
    /\ Len(out_file.chunks) > 1

----------------------------------------------------------------------------
(* C5 *)

\* C5: meta.note says "Raw cadence" exactly when resample_df returns the frame
\* unchanged, and "Resampled for display" exactly when it buckets the frame.
C5_NoteMatchesResampling ==
    pc \in {"open", "dump", "done"} =>
        (payload.meta.note = "Raw cadence" <=> PassesThrough(rule))

----------------------------------------------------------------------------
(* C6 *)

\* the entries of a series list, without their order
Entries(ss) == {ss[k] : k \in 1..Len(ss)}

\* C6: when the second loop has finished, the entries (station, x, y) of series are
\* the ones main builds for every other order in which discovery could have
\* yielded the same files.
C6_OrderIndependent ==
    pc = "open" =>
        \A f \in Orders(Len(discovered)) :
            Entries(SeriesOfRun(Permuted(discovered, f), rule)) = Entries(series)

\* a station built from two files with different values at one instant
C6_Witness ==
    /\ pc = "open"
    /\ \E k \in 1..Len(records) :
          /\ Len(records[k].dfs) >= 2
          /\ \E a, b \in 1..Len(records[k].dfs) :
                /\ a # b
                /\ records[k].dfs[a][1][1] = records[k].dfs[b][1][1]
                /\ records[k].dfs[a][1][2] # records[k].dfs[b][1][2]

----------------------------------------------------------------------------
(* C7 *)

\* what the file at out_path holds is the whole document
Complete(f) == f.touched /\ f.chunks = Chunks(payload)

\* C7 as claimed: a run that aborts leaves out_path untouched or holding a complete
\* document.
C7_NoPartialOutput == pc = "aborted" => (out_file = Untouched \/ Complete(out_file))

\* C7 as amended: out_path is opened only after every station's series is computed
\* and the payload is built; a run that aborts before the write (creating the
\* directory, resampling, opening the file) leaves out_path untouched; a run that
\* finishes leaves the complete document.
C7_WriteIsLast ==
    /\ (out_file.touched =>
           /\ j = Len(records) + 1
           /\ Len(series) = Len(records)
           /\ payload.series = series
           /\ (pc \in {"dump", "done"} \/ (pc = "aborted" /\ fatal = "dump")))
    /\ (pc = "aborted" /\ fatal # "dump" => out_file = Untouched)
    /\ (pc = "done" => Complete(out_file))

\* a run that aborted in the second loop, after a station had been computed
C7_Witness == pc = "aborted" /\ fatal = "resample" /\ Len(records) > 0 /\ out_file = Untouched

----------------------------------------------------------------------------
(* C9 *)

\* C9: with resampling disabled, merged holds exactly one row per distinct
\* timestamp of the station's retained rows, whose value is the arithmetic mean of
\* all the station's rows at that timestamp: value * count = sum of the values.
C9_MeanPerTimestamp ==
    (pc \in {"aggregate", "open", "dump", "done"} /\ j > 1 /\ PassesThrough(rule)) =>
        LET rows == RetainedRows(discovered, records[j - 1].st)
            ts   == {rows[k][1] : k \in 1..Len(rows)}
        IN  /\ \A t \in ts : Cardinality({k \in 1..Len(merged) : merged[k][1] = t}) = 1
            /\ \A k \in 1..Len(merged) :
                  /\ merged[k][1] \in ts
                  /\ LET vs == ValuesAt(rows, merged[k][1])
                     IN  merged[k][2][1] * Len(vs) = SumNum(vs) * merged[k][2][2]

\* a station whose files hold two rows at one instant with different values
C9_Witness ==
    /\ pc \in {"aggregate", "open", "dump", "done"} /\ j > 1 /\ PassesThrough(rule)
    /\ LET rows == RetainedRows(discovered, records[j - 1].st)
       IN  \E a, b \in 1..Len(rows) :
              /\ a # b
              /\ rows[a][1] = rows[b][1]
              /\ rows[a][2] # rows[b][2]
              /\ \E k \in 1..Len(merged) :
                    /\ merged[k][1] = rows[a][1]
                    /\ Len(ValuesAt(rows, rows[a][1])) = 2
                    /\ merged[k][2][1] * 2 = (rows[a][2][1] + rows[b][2][1]) * merged[k][2][2]

----------------------------------------------------------------------------
(* C3, C4 *)

Named == stA # "" /\ stB # ""

\* C3 as claimed: two files of one directory, the root included, get one station.
C3_SameDirSameStation == (Named /\ DirOf(pathA) = DirOf(pathB)) => stA = stB

\* C3 as amended: two files of one directory below the root get one station, the
\* joined directory path whatever the file names (A/B/f.dat and A/B/g.dat both
\* get "A/B"); a file directly in the root gets the stem of its own name.
C3_SameSubdirSameStation ==
    /\ (Named /\ DirOf(pathA) = DirOf(pathB) /\ DirOf(pathA) # <<>>) => stA = stB
    /\ (stA # "" /\ DirOf(pathA) = <<"A", "B">>) => stA = "A/B"
    /\ (stA # "" /\ DirOf(pathA) = <<>> /\ NameOf(pathA) = "h.dat") => stA = "h"

\* A/B/f.dat and A/B/g.dat have both been named
C3_Witness ==
    /\ pathA = RAW_DIR \o <<"A", "B", "f.dat">>
    /\ pathB = RAW_DIR \o <<"A", "B", "g.dat">>
    /\ stA = "A/B"
    /\ stB = "A/B"

\* C4: two files of different directories get different stations.
C4_DifferentDirDifferentStation == (Named /\ DirOf(pathA) # DirOf(pathB)) => stA # stB

----------------------------------------------------------------------------
(* C8, C10 *)

HasKey(keys, h) == \E p \in 1..Len(h) : LowerStrip(h[p]) \in Range(keys)

\* the key earliest in the priority list that names a column of h
BestKey(keys, h) ==
    keys[Min({n \in 1..Len(keys) : \E p \in 1..Len(h) : LowerStrip(h[p]) = keys[n]})]

\* C8: when a time synonym and a value synonym both name columns, the columns
\* returned are named by the synonym earliest in each priority list, wherever
\* they stand.
C8_NamedColumnsFound ==
    (cols # <<>> /\ HasKey(time_keys, header) /\ HasKey(val_keys, header)) =>
        /\ LowerStrip(cols[1].label) = BestKey(time_keys, header)
        /\ LowerStrip(cols[2].label) = BestKey(val_keys, header)

\* the time column returned stands right of a column named by a later synonym
C8_Witness ==
    /\ cols # <<>>
    /\ HasKey(time_keys, header) /\ HasKey(val_keys, header)
    /\ \E p \in 1..cols[1].idx :
          LowerStrip(header[p]) \in Range(time_keys) \ {LowerStrip(cols[1].label)}

\* C10: for more than one column the time role and the value role go to two
\* different columns.
C10_RolesDistinct == (cols # <<>> /\ Len(header) > 1) => cols[1].idx # cols[2].idx

====
